---- MODULE Spec2Model ----
(***************************************************************************)
(* Recursive-descent query parser (src/src/parser/parse_query.rs).         *)
(*                                                                         *)
(* The parser is modelled as a call-stack machine.  A configuration `c`    *)
(* holds the stack of method activations, the stack of live Parser values  *)
(* (one per token scope), the value returned by the last method that       *)
(* returned, and a flag raised when a slice index goes out of range.       *)
(* Every method of `impl Parser` is an operator from configurations to     *)
(* configurations that performs the code of the method up to its next      *)
(* call or return; the action of the same name applies it to the state.    *)
(***************************************************************************)
EXTENDS Integers, Sequences, FiniteSets, TLC

\* ------------------------------------------------------------------ bounds
\* tokens in a freely generated scope
MaxUnits == 2
\* list items in a generated item/separator scope
MaxItems == 2
\* separator atoms written after one item
MaxSep == 2
\* tokens following the part the root production consumes
MaxTrail == 1

\* ------------------------------------------------------------------ tokens
\* parser::token::{Token, TokenKind, Atom, Bracket}, as used by the parser.
NoTok == [kind |-> "None", tag |-> "", text |-> "", num |-> 0, toks |-> <<>>]
AtomName(s)   == [kind |-> "Atom", tag |-> "Name",    text |-> s,  num |-> 0, toks |-> <<>>]
AtomNumber(n) == [kind |-> "Atom", tag |-> "Number",  text |-> "", num |-> n, toks |-> <<>>]
AtomString(s) == [kind |-> "Atom", tag |-> "String",  text |-> s,  num |-> 0, toks |-> <<>>]
AtomColon     == [kind |-> "Atom", tag |-> "Colon",   text |-> "", num |-> 0, toks |-> <<>>]
AtomComma     == [kind |-> "Atom", tag |-> "Comma",   text |-> "", num |-> 0, toks |-> <<>>]
AtomBang      == [kind |-> "Atom", tag |-> "Bang",    text |-> "", num |-> 0, toks |-> <<>>]
AtomNewLine   == [kind |-> "Atom", tag |-> "NewLine", text |-> "", num |-> 0, toks |-> <<>>]
Tree(b, toks) == [kind |-> "Tree", tag |-> b,         text |-> "", num |-> 0, toks |-> toks]

IsAtom(t, a)  == t.kind = "Atom" /\ t.tag = a
IsTree(t, b)  == t.kind = "Tree" /\ t.tag = b

\* ------------------------------------------------------------------ AST
\* query::{Query, Field, Value}; types::Name is the wrapped string itself.
ValueNull      == [tag |-> "Null",   text |-> "", items |-> <<>>]
ValueName(s)   == [tag |-> "Name",   text |-> s,  items |-> <<>>]
ValueString(s) == [tag |-> "String", text |-> s,  items |-> <<>>]
ValueArray(vs) == [tag |-> "Array",  text |-> "", items |-> vs]
\* alias: Option<Name>, <<>> is None
MkField(n, a, fs) == [name |-> n, alias |-> <<>>, args |-> a, fields |-> fs]
QueryQuery(body)  == [tag |-> "Query", body |-> body]
QueryMutation     == [tag |-> "Mutation", body |-> <<>>]

\* i64/f64 `to_string` of a non-negative whole number: its decimal digits.
Digit(d) == CASE d = 0 -> "0" [] d = 1 -> "1" [] d = 2 -> "2" [] d = 3 -> "3"
              [] d = 4 -> "4" [] d = 5 -> "5" [] d = 6 -> "6" [] d = 7 -> "7"
              [] d = 8 -> "8" [] d = 9 -> "9"
\* (variant: the digits come out least significant first)
RECURSIVE to_string_reversed(_)
to_string_reversed(n) ==
    IF n < 10 THEN Digit(n) ELSE Digit(n % 10) \o to_string_reversed(n \div 10)
RECURSIVE to_string(_)
to_string(n) == IF n < 10 THEN Digit(n) ELSE to_string(n \div 10) \o Digit(n % 10)

\* ------------------------------------------------------------------ machine
\* One activation of a method: `self` indexes the Parser it was called on,
\* `atom` is the argument of eat/maybe_eat, the rest are the method's locals.
Frame(fn, self) ==
    [fn |-> fn, pc |-> 0, self |-> self, atom |-> NoTok, tok |-> NoTok,
     result |-> <<>>, name |-> "", args |-> <<>>]

Top(c)    == c.stack[Len(c.stack)]
Tokens(c) == c.parsers[Top(c).self].tokens
Front(s)  == SubSeq(s, 1, Len(s) - 1)

\* Parser::new: a cursor over the given slice; it cannot fail.
new(tokens) == [tokens |-> tokens]

\* Suspend the running method at `pc` (with locals `f`) and invoke `fn` on
\* the same Parser.
Call(c, f, pc, fn) ==
    [c EXCEPT !.stack = Append([c.stack EXCEPT ![Len(c.stack)] = [f EXCEPT !.pc = pc]],
                               Frame(fn, f.self))]
CallWith(c, f, pc, fn, atom) ==
    [c EXCEPT !.stack = Append([c.stack EXCEPT ![Len(c.stack)] = [f EXCEPT !.pc = pc]],
                               [Frame(fn, f.self) EXCEPT !.atom = atom])]
\* `Parser::new(toks)?.fn()`: invoke `fn` on a fresh Parser over `toks`.
CallNew(c, f, pc, fn, toks) ==
    [c EXCEPT !.parsers = Append(c.parsers, new(toks)),
              !.stack = Append([c.stack EXCEPT ![Len(c.stack)] = [f EXCEPT !.pc = pc]],
                               Frame(fn, Len(c.parsers) + 1))]
\* the temporary Parser of `Parser::new(toks)?.fn()` is dropped
DropParser(c) == [c EXCEPT !.parsers = Front(c.parsers)]

Return(c, tag, val) ==
    [c EXCEPT !.stack = Front(c.stack),
              !.ret = [fn |-> Top(c).fn, tag |-> tag, val |-> val]]
Ok(c, val)       == Return(c, "Ok", val)
parse_err(c, s)  == Return(c, "Err", s)
\* the `?` operator on an Err: return it to the caller as it is
Try(c)           == Return(c, "Err", c.ret.val)
Failed(c)        == c.ret.tag = "Err"

\* ------------------------------------------------------------------ cursor
peek_tok(c) == IF Len(Tokens(c)) = 0 THEN <<>> ELSE <<Tokens(c)[1]>>

\* self.tokens = &self.tokens[1..]; the slice index panics on an empty slice
bump(c) ==
    IF Len(Tokens(c)) = 0
    THEN [c EXCEPT !.panicked = TRUE]
    ELSE Ok([c EXCEPT !.parsers[Top(c).self].tokens = Tail(Tokens(c))], <<>>)

next_tok(c) ==
    LET f == Top(c) IN
    CASE f.pc = 0 ->
           IF Len(Tokens(c)) = 0
           THEN parse_err(c, "Unexpected end of stream")
           ELSE Call(c, [f EXCEPT !.tok = Tokens(c)[1]], 1, "bump")
      [] f.pc = 1 -> Ok(c, f.tok)

eat(c) ==
    LET f == Top(c) IN
    CASE f.pc = 0 -> Call(c, f, 1, "next_tok")
      [] f.pc = 1 ->
           IF Failed(c) THEN Try(c)
           ELSE IF c.ret.val.kind = "Atom" /\ c.ret.val = f.atom
                THEN Ok(c, <<>>)
                ELSE parse_err(c, "Unexpected token")

\* (variant: the separator is looked at but never consumed)
maybe_eat_keeps(c) == Ok(c, <<>>)
\* (variant: bump without the `if let Some` test of the peeked token)
maybe_eat_unpeeked(c) ==
    LET f == Top(c)
        p == peek_tok(c) IN
    CASE f.pc = 0 ->
           IF p = <<>> \/ (p[1].kind = "Atom" /\ p[1] = f.atom)
           THEN Call(c, f, 1, "bump")
           ELSE Ok(c, <<>>)
      [] f.pc = 1 -> Ok(c, <<>>)
maybe_eat(c) ==
    LET f == Top(c)
        p == peek_tok(c) IN
    CASE f.pc = 0 ->
           IF p # <<>> /\ p[1].kind = "Atom" /\ p[1] = f.atom
           THEN Call(c, f, 1, "bump")
           ELSE Ok(c, <<>>)
      [] f.pc = 1 -> Ok(c, <<>>)

\* (variant: `if let` in place of `while let`, one newline at most)
ignore_newlines_once(c) ==
    LET f == Top(c)
        p == peek_tok(c) IN
    CASE f.pc = 0 ->
           IF p # <<>> /\ IsAtom(p[1], "NewLine")
           THEN Call(c, f, 1, "bump")
           ELSE Ok(c, <<>>)
      [] f.pc = 1 -> Ok(c, <<>>)
\* (variant: the loop body does not bump)
ignore_newlines_spins(c) ==
    LET p == peek_tok(c) IN
    IF p # <<>>
    THEN IF IsAtom(p[1], "NewLine") THEN c ELSE Ok(c, <<>>)
    ELSE Ok(c, <<>>)
ignore_newlines(c) ==
    LET f == Top(c)
        p == peek_tok(c) IN
    IF p # <<>>
    THEN IF IsAtom(p[1], "NewLine")
         THEN Call(c, f, 0, "bump")
         ELSE Ok(c, <<>>)
    ELSE Ok(c, <<>>)

\* ------------------------------------------------------------------ root
\* (the messages are the source's, without the backquotes around the brace)
\* (variant: the `TODO assert no more tokens` carried out)
parse_query_strict(c) ==
    LET f == Top(c)
        t == c.ret.val IN
    CASE f.pc = 0 -> Call(c, f, 1, "next_tok")
      [] f.pc = 1 ->
           IF Failed(c) THEN Try(c)
           ELSE IF IsAtom(t, "Name") /\ t.text = "query"
                THEN Call(c, f, 2, "next_tok")
           ELSE IF IsAtom(t, "Name") /\ t.text = "mutation"
                THEN IF Tokens(c) = <<>> THEN Ok(c, QueryMutation)
                     ELSE parse_err(c, "Unexpected token, expected: end of input")
           ELSE IF IsTree(t, "Brace")
                THEN CallNew(c, f, 3, "parse_field_list", t.toks)
           ELSE parse_err(c, "Unexpected token, expected: identifier or {")
      [] f.pc = 2 ->
           IF Failed(c) THEN Try(c)
           ELSE IF IsTree(t, "Brace")
                THEN CallNew(c, f, 3, "parse_field_list", t.toks)
                ELSE parse_err(c, "Unexpected token, expected: {")
      [] f.pc = 3 ->
           IF Failed(c) THEN Try(DropParser(c))
           ELSE IF Tokens(c) = <<>> THEN Ok(DropParser(c), QueryQuery(c.ret.val))
           ELSE parse_err(DropParser(c), "Unexpected token, expected: end of input")
parse_query(c) ==
    LET f == Top(c)
        t == c.ret.val IN
    CASE f.pc = 0 -> Call(c, f, 1, "next_tok")
      [] f.pc = 1 ->
           IF Failed(c) THEN Try(c)
           ELSE IF IsAtom(t, "Name") /\ t.text = "query"
                THEN Call(c, f, 2, "next_tok")
           ELSE IF IsAtom(t, "Name") /\ t.text = "mutation"
                THEN Ok(c, QueryMutation)
           ELSE IF IsTree(t, "Brace")
                THEN CallNew(c, f, 3, "parse_field_list", t.toks)
           ELSE parse_err(c, "Unexpected token, expected: identifier or {")
      [] f.pc = 2 ->
           IF Failed(c) THEN Try(c)
           ELSE IF IsTree(t, "Brace")
                THEN CallNew(c, f, 3, "parse_field_list", t.toks)
                ELSE parse_err(c, "Unexpected token, expected: {")
      [] f.pc = 3 ->
           IF Failed(c) THEN Try(DropParser(c))
           ELSE Ok(DropParser(c), QueryQuery(c.ret.val))

\* ------------------------------------------------------------------ fields
parse_field_list(c) ==
    LET f == Top(c) IN
    CASE f.pc = 0 -> Call(c, f, 1, "ignore_newlines")
      [] f.pc = 1 -> Call(c, f, 2, "maybe_parse_field")
      [] f.pc = 2 ->
           IF Failed(c) THEN Try(c)
           ELSE IF c.ret.val = <<>>
                THEN Ok(c, f.result)
                ELSE CallWith(c, [f EXCEPT !.result = Append(f.result, c.ret.val[1])],
                              3, "maybe_eat", AtomComma)
      [] f.pc = 3 -> Call(c, f, 1, "ignore_newlines")

\* (variant: a token that cannot start a field ends the list)
maybe_parse_field_stops(c) ==
    LET f == Top(c)
        p == peek_tok(c) IN
    CASE f.pc = 0 ->
           IF p = <<>> THEN Ok(c, <<>>)
           ELSE IF IsAtom(p[1], "Name") THEN Call(c, f, 1, "parse_field")
           ELSE Ok(c, <<>>)
      [] f.pc = 1 ->
           IF Failed(c) THEN Try(c) ELSE Ok(c, <<c.ret.val>>)
maybe_parse_field(c) ==
    LET f == Top(c)
        p == peek_tok(c) IN
    CASE f.pc = 0 ->
           IF p = <<>> THEN Ok(c, <<>>)
           ELSE IF IsAtom(p[1], "Name") THEN Call(c, f, 1, "parse_field")
           ELSE parse_err(c, "Unexpected token, expected: field")
      [] f.pc = 1 ->
           IF Failed(c) THEN Try(c) ELSE Ok(c, <<c.ret.val>>)

\* (variant: the sub-fields are parsed and then left out of the Field)
parse_field_flat(c) ==
    LET f == Top(c) IN
    CASE f.pc = 0 -> Call(c, f, 1, "parse_name")
      [] f.pc = 1 ->
           IF Failed(c) THEN Try(c)
           ELSE Call(c, [f EXCEPT !.name = c.ret.val], 2, "maybe_parse_args")
      [] f.pc = 2 ->
           IF Failed(c) THEN Try(c)
           ELSE Call(c, [f EXCEPT !.args = c.ret.val], 3, "maybe_parse_fields")
      [] f.pc = 3 ->
           IF Failed(c) THEN Try(c)
           ELSE Ok(c, MkField(f.name, f.args, <<>>))
parse_field(c) ==
    LET f == Top(c) IN
    CASE f.pc = 0 -> Call(c, f, 1, "parse_name")
      [] f.pc = 1 ->
           IF Failed(c) THEN Try(c)
           ELSE Call(c, [f EXCEPT !.name = c.ret.val], 2, "maybe_parse_args")
      [] f.pc = 2 ->
           IF Failed(c) THEN Try(c)
           ELSE Call(c, [f EXCEPT !.args = c.ret.val], 3, "maybe_parse_fields")
      [] f.pc = 3 ->
           IF Failed(c) THEN Try(c)
           ELSE Ok(c, MkField(f.name, f.args, c.ret.val))

parse_name(c) ==
    LET f == Top(c) IN
    CASE f.pc = 0 -> Call(c, f, 1, "next_tok")
      [] f.pc = 1 ->
           IF Failed(c) THEN Try(c)
           ELSE IF IsAtom(c.ret.val, "Name")
                THEN Ok(c, c.ret.val.text)
                ELSE parse_err(c, "Unexpected token, expected: name")

maybe_parse_fields(c) ==
    LET f == Top(c)
        p == peek_tok(c) IN
    CASE f.pc = 0 ->
           IF p # <<>> /\ IsTree(p[1], "Brace")
           THEN Call(c, [f EXCEPT !.tok = p[1]], 1, "bump")
           ELSE Ok(c, <<>>)
      [] f.pc = 1 -> CallNew(c, f, 2, "parse_field_list", f.tok.toks)
      [] f.pc = 2 -> Return(DropParser(c), c.ret.tag, c.ret.val)

\* ------------------------------------------------------------------ arguments
maybe_parse_args(c) ==
    LET f == Top(c)
        p == peek_tok(c) IN
    CASE f.pc = 0 ->
           IF p # <<>> /\ IsTree(p[1], "Paren")
           THEN Call(c, [f EXCEPT !.tok = p[1]], 1, "bump")
           ELSE Ok(c, <<>>)
      [] f.pc = 1 -> CallNew(c, f, 2, "parse_arg_list", f.tok.toks)
      [] f.pc = 2 -> Return(DropParser(c), c.ret.tag, c.ret.val)

parse_arg_list(c) ==
    LET f == Top(c) IN
    CASE f.pc = 0 -> Call(c, f, 1, "ignore_newlines")
      [] f.pc = 1 -> Call(c, f, 2, "maybe_parse_arg")
      [] f.pc = 2 ->
           IF Failed(c) THEN Try(c)
           ELSE IF c.ret.val = <<>>
                THEN Ok(c, f.result)
                ELSE CallWith(c, [f EXCEPT !.result = Append(f.result, c.ret.val[1])],
                              3, "maybe_eat", AtomComma)
      [] f.pc = 3 -> Call(c, f, 1, "ignore_newlines")

\* (variant: a token that cannot start an argument ends the list)
maybe_parse_arg_stops(c) ==
    LET f == Top(c)
        p == peek_tok(c) IN
    CASE f.pc = 0 ->
           IF p = <<>> THEN Ok(c, <<>>)
           ELSE IF IsAtom(p[1], "Name") THEN Call(c, f, 1, "parse_arg")
           ELSE Ok(c, <<>>)
      [] f.pc = 1 ->
           IF Failed(c) THEN Try(c) ELSE Ok(c, <<c.ret.val>>)
maybe_parse_arg(c) ==
    LET f == Top(c)
        p == peek_tok(c) IN
    CASE f.pc = 0 ->
           IF p = <<>> THEN Ok(c, <<>>)
           ELSE IF IsAtom(p[1], "Name") THEN Call(c, f, 1, "parse_arg")
           ELSE parse_err(c, "Unexpected token, expected: name")
      [] f.pc = 1 ->
           IF Failed(c) THEN Try(c) ELSE Ok(c, <<c.ret.val>>)

parse_arg(c) ==
    LET f == Top(c) IN
    CASE f.pc = 0 -> Call(c, f, 1, "parse_name")
      [] f.pc = 1 ->
           IF Failed(c) THEN Try(c)
           ELSE CallWith(c, [f EXCEPT !.name = c.ret.val], 2, "eat", AtomColon)
      [] f.pc = 2 ->
           IF Failed(c) THEN Try(c) ELSE Call(c, f, 3, "parse_value")
      [] f.pc = 3 ->
           IF Failed(c) THEN Try(c) ELSE Ok(c, <<f.name, c.ret.val>>)

\* ------------------------------------------------------------------ values
parse_value(c) ==
    LET f == Top(c)
        t == c.ret.val IN
    CASE f.pc = 0 -> Call(c, f, 1, "next_tok")
      [] f.pc = 1 ->
           IF Failed(c) THEN Try(c)
           ELSE IF IsAtom(t, "Name") /\ t.text = "null" THEN Ok(c, ValueNull)
           ELSE IF IsAtom(t, "Name")   THEN Ok(c, ValueName(t.text))
           ELSE IF IsAtom(t, "Number") THEN Ok(c, ValueName(to_string(t.num)))
           ELSE IF IsAtom(t, "String") THEN Ok(c, ValueString(t.text))
           ELSE IF IsTree(t, "Square")
                THEN CallNew(c, f, 2, "parse_value_list", t.toks)
           ELSE parse_err(c, "Unexpected token, expected: value")
      [] f.pc = 2 ->
           IF Failed(c) THEN Try(DropParser(c))
           ELSE Ok(DropParser(c), ValueArray(c.ret.val))

parse_value_list(c) ==
    LET f == Top(c) IN
    CASE f.pc = 0 -> Call(c, f, 1, "ignore_newlines")
      [] f.pc = 1 -> Call(c, f, 2, "maybe_parse_value")
      [] f.pc = 2 ->
           IF Failed(c) THEN Try(c)
           ELSE IF c.ret.val = <<>>
                THEN Ok(c, f.result)
                ELSE CallWith(c, [f EXCEPT !.result = Append(f.result, c.ret.val[1])],
                              3, "maybe_eat", AtomComma)
      [] f.pc = 3 -> Call(c, f, 1, "ignore_newlines")

maybe_parse_value(c) ==
    LET f == Top(c)
        p == peek_tok(c) IN
    CASE f.pc = 0 ->
           IF p = <<>> THEN Ok(c, <<>>)
           ELSE IF IsAtom(p[1], "Name") \/ IsAtom(p[1], "String") \/ IsTree(p[1], "Square")
                THEN Call(c, f, 1, "parse_value")
           ELSE parse_err(c, "Unexpected token, expected: value")
      [] f.pc = 1 ->
           IF Failed(c) THEN Try(c) ELSE Ok(c, <<c.ret.val>>)

\* ------------------------------------------------------------------ stepping
\* One step of the method on top of the stack.
Step(c) ==
    LET fn == Top(c).fn IN
    CASE fn = "bump"               -> bump(c)
      [] fn = "next_tok"           -> next_tok(c)
      [] fn = "eat"                -> eat(c)
      [] fn = "maybe_eat"          -> maybe_eat(c)
      [] fn = "ignore_newlines"    -> ignore_newlines(c)
      [] fn = "parse_query"        -> parse_query(c)
      [] fn = "parse_field_list"   -> parse_field_list(c)
      [] fn = "maybe_parse_field"  -> maybe_parse_field(c)
      [] fn = "parse_field"        -> parse_field(c)
      [] fn = "parse_name"         -> parse_name(c)
      [] fn = "maybe_parse_args"   -> maybe_parse_args(c)
      [] fn = "parse_arg_list"     -> parse_arg_list(c)
      [] fn = "maybe_parse_arg"    -> maybe_parse_arg(c)
      [] fn = "parse_arg"          -> parse_arg(c)
      [] fn = "maybe_parse_fields" -> maybe_parse_fields(c)
      [] fn = "parse_value"        -> parse_value(c)
      [] fn = "parse_value_list"   -> parse_value_list(c)
      [] fn = "maybe_parse_value"  -> maybe_parse_value(c)

Halted(c) == c.stack = <<>> \/ c.panicked

\* A method called on a fresh Parser over `toks`, as the unit tests and the
\* public parse_query(input) do.
Start(fn, toks) ==
    [stack    |-> <<Frame(fn, 1)>>,
     parsers  |-> <<new(toks)>>,
     ret      |-> [fn |-> "", tag |-> "None", val |-> <<>>],
     panicked |-> FALSE]

\* The method run to its return: the configuration it leaves behind.
RECURSIVE Run(_)
Run(c) == IF Halted(c) THEN c ELSE Run(Step(c))
Eval(fn, toks) == Run(Start(fn, toks))
\* what the call returned, and the cursor it left
Result(fn, toks) == [tag |-> Eval(fn, toks).ret.tag, val |-> Eval(fn, toks).ret.val]
Rest(fn, toks)   == Eval(fn, toks).parsers[1].tokens

\* ------------------------------------------------------------------ inputs
\* Token scopes the tokeniser can produce (bracket-balanced by construction).
BraceT  == Tree("Brace",  <<AtomName("a")>>)
ParenT  == Tree("Paren",  <<AtomName("x"), AtomColon, AtomNumber(1002), AtomComma,
                            AtomName("x"), AtomColon, AtomString("foo")>>)
SquareT == Tree("Square", <<AtomName("null"), AtomComma, AtomString("bar")>>)

Alphabet ==
    {AtomName("a"), AtomName("null"), AtomNumber(42), AtomString("foo"),
     AtomColon, AtomComma, AtomBang, AtomNewLine, BraceT, ParenT, SquareT}
Keywords == {AtomName("query"), AtomName("mutation")}

\* concatenations of at most n of the given units
RECURSIVE Scopes(_, _)
Scopes(units, n) ==
    IF n = 0 THEN {<<>>}
    ELSE LET S == Scopes(units, n - 1) IN S \cup {s \o u : s \in S, u \in units}

FreeScopes == Scopes({<<t>> : t \in Alphabet}, MaxUnits)
\* the scopes placed inside enclosing bracket groups
InnerScopes ==
    Scopes({<<AtomName("a")>>, <<AtomNumber(42)>>, <<AtomComma>>, <<AtomNewLine>>,
            <<AtomBang>>}, MaxUnits)

\* list items, each followed by a run of separator atoms: any run of up to
\* MaxSep atoms after the first item, at most one atom after the others
Seps       == Scopes({<<AtomComma>>, <<AtomNewLine>>}, MaxSep)
ShortSeps  == {<<>>, <<AtomComma>>, <<AtomNewLine>>}
FieldItems == {<<AtomName("a")>>, <<AtomName("b"), ParenT, BraceT>>}
ArgItems   == {<<AtomName("x"), AtomColon, AtomNumber(42)>>,
               <<AtomName("x"), AtomColon, SquareT>>}
ValueItems == {<<AtomName("a")>>, <<AtomNumber(42)>>}
RECURSIVE ItemTails(_, _)
ItemTails(items, n) ==
    IF n = 0 THEN {<<>>}
    ELSE LET S == ItemTails(items, n - 1) IN
         S \cup {i \o s \o r : i \in items, s \in ShortSeps, r \in S}
ItemScopes(items, n) ==
    IF n = 0 THEN {<<>>}
    ELSE {<<>>} \cup {i \o s \o r : i \in items, s \in Seps, r \in ItemTails(items, n - 1)}

ListFns  == {"parse_field_list", "parse_arg_list", "parse_value_list"}
EntryFns == ListFns \cup {"parse_query", "parse_value", "maybe_parse_args", "maybe_parse_fields"}

\* a scope placed at every nesting position the grammar has
Nested(s) ==
    { <<Tree("Brace", s)>>,
      <<AtomName("query"), Tree("Brace", s)>>,
      <<Tree("Brace", <<AtomName("a"), Tree("Brace", s)>>)>>,
      <<Tree("Brace", <<AtomName("a"), Tree("Paren", s)>>)>>,
      <<Tree("Brace", <<AtomName("a"),
                        Tree("Paren", <<AtomName("x"), AtomColon, Tree("Square", s)>>),
                        Tree("Brace", <<AtomName("b")>>)>>)>> }

\* the part the root production consumes, in front of trailing tokens
RootBodies == {<<>>, <<AtomName("a")>>, <<AtomNumber(42)>>,
               <<AtomName("a"), AtomComma, AtomName("b"), ParenT>>,
               <<AtomName("a"), BraceT, ParenT>>}
RootHeads  == {<<>>, <<AtomName("mutation")>>}
              \cup {<<Tree("Brace", b)>> : b \in RootBodies}
              \cup {<<AtomName("query"), Tree("Brace", b)>> : b \in RootBodies}
Trails     == Scopes({<<t>> : t \in Alphabet \cup Keywords}, MaxTrail)

Inputs ==
    {<<fn, s>> : fn \in EntryFns, s \in FreeScopes}
    \cup {<<"parse_field_list", s>> : s \in ItemScopes(FieldItems, MaxItems)}
    \cup {<<"parse_arg_list", s>>   : s \in ItemScopes(ArgItems, MaxItems)}
    \cup {<<"parse_value_list", s>> : s \in ItemScopes(ValueItems, MaxItems)}
    \cup {<<fn, s>> : fn \in ListFns, s \in Seps}
    \cup {<<"parse_query", r>> : r \in UNION {Nested(s) : s \in InnerScopes}}
    \cup {<<"parse_query", h \o t>> : h \in RootHeads, t \in Trails}

\* ------------------------------------------------------------------ state
VARIABLES
    stack,      \* method activations, innermost last
    parsers,    \* live Parser values, the root scope first
    ret,        \* value returned by the method that returned last
    panicked,   \* a slice index went out of range
    entry,      \* the method the run was started with
    input       \* the token slice the run was started over

vars == <<stack, parsers, ret, panicked, entry, input>>

Cfg == [stack |-> stack, parsers |-> parsers, ret |-> ret, panicked |-> panicked]

Init ==
    \E in \in Inputs :
        /\ entry = in[1]
        /\ input = in[2]
        /\ stack = Start(in[1], in[2]).stack
        /\ parsers = Start(in[1], in[2]).parsers
        /\ ret = Start(in[1], in[2]).ret
        /\ panicked = FALSE

Running(fn) == ~Halted(Cfg) /\ Top(Cfg).fn = fn
Apply(n) ==
    /\ stack' = n.stack
    /\ parsers' = n.parsers
    /\ ret' = n.ret
    /\ panicked' = n.panicked
    /\ UNCHANGED <<entry, input>>

Bump             == Running("bump")               /\ Apply(bump(Cfg))
NextTok          == Running("next_tok")           /\ Apply(next_tok(Cfg))
Eat              == Running("eat")                /\ Apply(eat(Cfg))
MaybeEat         == Running("maybe_eat")          /\ Apply(maybe_eat(Cfg))
IgnoreNewlines   == Running("ignore_newlines")    /\ Apply(ignore_newlines(Cfg))
ParseQuery       == Running("parse_query")        /\ Apply(parse_query(Cfg))
ParseFieldList   == Running("parse_field_list")   /\ Apply(parse_field_list(Cfg))
MaybeParseField  == Running("maybe_parse_field")  /\ Apply(maybe_parse_field(Cfg))
ParseField       == Running("parse_field")        /\ Apply(parse_field(Cfg))
ParseName        == Running("parse_name")         /\ Apply(parse_name(Cfg))
MaybeParseArgs   == Running("maybe_parse_args")   /\ Apply(maybe_parse_args(Cfg))
ParseArgList     == Running("parse_arg_list")     /\ Apply(parse_arg_list(Cfg))
MaybeParseArg    == Running("maybe_parse_arg")    /\ Apply(maybe_parse_arg(Cfg))
ParseArg         == Running("parse_arg")          /\ Apply(parse_arg(Cfg))
MaybeParseFields == Running("maybe_parse_fields") /\ Apply(maybe_parse_fields(Cfg))
ParseValue       == Running("parse_value")        /\ Apply(parse_value(Cfg))
ParseValueList   == Running("parse_value_list")   /\ Apply(parse_value_list(Cfg))
MaybeParseValue  == Running("maybe_parse_value")  /\ Apply(maybe_parse_value(Cfg))

Next ==
    \/ Bump \/ NextTok \/ Eat \/ MaybeEat \/ IgnoreNewlines
    \/ ParseQuery
    \/ ParseFieldList \/ MaybeParseField \/ ParseField \/ ParseName
    \/ MaybeParseArgs \/ ParseArgList \/ MaybeParseArg \/ ParseArg
    \/ MaybeParseFields
    \/ ParseValue \/ ParseValueList \/ MaybeParseValue

Spec == Init /\ [][Next]_vars
\* The parser is a single thread that keeps running until the entry method
\* returns or the thread panics.
FairSpec == Spec /\ WF_vars(Next)

\* the entry method has returned
Done == stack = <<>> /\ ~panicked

\* ------------------------------------------------------------------ helpers
Min(a, b) == IF a < b THEN a ELSE b
IsSuffix(a, b) == Len(a) <= Len(b) /\ a = SubSeq(b, Len(b) - Len(a) + 1, Len(b))
IsSep(t) == IsAtom(t, "Comma") \/ IsAtom(t, "NewLine")
Wrapped(r) == IF r.tag = "Ok" THEN [tag |-> "Ok", val |-> QueryQuery(r.val)] ELSE r
Outcome == [tag |-> ret.tag, val |-> ret.val]

\* ------------------------------------------------------------------ C2
\* C2: the root production returns a Query or a ParseError and never
\* panics: whenever bump is invoked, on any call path, the Parser it is
\* invoked on has at least one token left.
C2_NoPanic ==
    /\ ~panicked
    /\ Running("bump") => Len(Tokens(Cfg)) > 0
    /\ (Done /\ entry = "parse_query") =>
          \/ ret.tag = "Err"
          \/ ret.tag = "Ok" /\ ret.val.tag \in {"Query", "Mutation"}

\* bump invoked by maybe_parse_args on the last token of a nested scope
C2_Witness ==
    /\ Running("bump")
    /\ entry = "parse_query"
    /\ Len(stack) > 1
    /\ stack[Len(stack) - 1].fn = "maybe_parse_args"
    /\ Len(Tokens(Cfg)) = 1

\* ------------------------------------------------------------------ C3
\* C3: the root production's result does not depend on the tokens after the
\* part it consumes: `mutation` gives Mutation whatever follows, and a
\* Brace-tree (alone or after `query`) gives the result of its contents
\* parsed as a field list; the trailing tokens stay unconsumed.
C3_TrailingIgnored ==
    (Done /\ entry = "parse_query" /\ input # <<>>) =>
        /\ (IsAtom(input[1], "Name") /\ input[1].text = "mutation") =>
              /\ Outcome = [tag |-> "Ok", val |-> QueryMutation]
              /\ parsers[1].tokens = Tail(input)
        /\ IsTree(input[1], "Brace") =>
              /\ Outcome = Wrapped(Result("parse_field_list", input[1].toks))
              /\ parsers[1].tokens = Tail(input)
        /\ (/\ IsAtom(input[1], "Name") /\ input[1].text = "query"
            /\ Len(input) > 1 /\ IsTree(input[2], "Brace")) =>
              /\ Outcome = Wrapped(Result("parse_field_list", input[2].toks))
              /\ parsers[1].tokens = Tail(Tail(input))

\* `query { a, b(..) } !` parsed: the Bang is left in the root cursor
C3_Witness ==
    /\ Done /\ entry = "parse_query"
    /\ Len(input) = 3
    /\ IsAtom(input[1], "Name") /\ input[1].text = "query"
    /\ IsTree(input[2], "Brace")
    /\ ret.tag = "Ok" /\ Len(ret.val.body) = 2
    /\ parsers[1].tokens = <<AtomBang>>

\* ------------------------------------------------------------------ C5
\* the literal text of the numeric atoms of the model
Numeral(n) == CASE n = 42 -> "42" [] n = 1002 -> "1002"

\* C5: parse_value consumes exactly one token and dispatches on it: `null`
\* gives Null, another identifier Name(text), a number Name(its text), a
\* string String(text), a Square-tree the Array of its scope's value list,
\* anything else and the empty scope a ParseError.
C5_ValueDispatch ==
    (Done /\ entry = "parse_value") =>
        IF input = <<>>
        THEN ret.tag = "Err" /\ parsers[1].tokens = <<>>
        ELSE /\ parsers[1].tokens = Tail(input)
             /\ LET t == input[1] IN
                CASE IsAtom(t, "Name") /\ t.text = "null" ->
                       Outcome = [tag |-> "Ok", val |-> ValueNull]
                  [] IsAtom(t, "Name") /\ t.text # "null" ->
                       Outcome = [tag |-> "Ok", val |-> ValueName(t.text)]
                  [] IsAtom(t, "Number") ->
                       Outcome = [tag |-> "Ok", val |-> ValueName(Numeral(t.num))]
                  [] IsAtom(t, "String") ->
                       Outcome = [tag |-> "Ok", val |-> ValueString(t.text)]
                  [] IsTree(t, "Square") ->
                       LET r == Result("parse_value_list", t.toks) IN
                       IF r.tag = "Ok"
                       THEN Outcome = [tag |-> "Ok", val |-> ValueArray(r.val)]
                       ELSE ret.tag = "Err"
                  [] OTHER -> ret.tag = "Err"

\* `[null, "bar"] 42`: the array is parsed in order, the number is left
C5_Witness ==
    /\ Done /\ entry = "parse_value"
    /\ input = <<SquareT, AtomNumber(42)>>
    /\ ret.tag = "Ok"
    /\ ret.val = ValueArray(<<ValueNull, ValueString("bar")>>)
    /\ parsers[1].tokens = <<AtomNumber(42)>>

\* ------------------------------------------------------------------ C7
\* C7: a list production over an empty or newline-only scope gives the
\* empty list; maybe_parse_args / maybe_parse_fields on an empty cursor or
\* on a front token that is not a Paren-tree / Brace-tree give the empty
\* list and leave the cursor unchanged.
C7_EmptyScopes ==
    /\ (Done /\ entry \in ListFns /\ \A i \in 1..Len(input) : IsAtom(input[i], "NewLine")) =>
          Outcome = [tag |-> "Ok", val |-> <<>>]
    /\ (Done /\ entry = "maybe_parse_args"
             /\ (input = <<>> \/ ~IsTree(input[1], "Paren"))) =>
          Outcome = [tag |-> "Ok", val |-> <<>>] /\ parsers[1].tokens = input
    /\ (Done /\ entry = "maybe_parse_fields"
             /\ (input = <<>> \/ ~IsTree(input[1], "Brace"))) =>
          Outcome = [tag |-> "Ok", val |-> <<>>] /\ parsers[1].tokens = input

\* the argument list production has returned over a scope of two newlines
C7_Witness ==
    /\ Done /\ entry = "parse_arg_list"
    /\ input = <<AtomNewLine, AtomNewLine>>
    /\ ret.tag = "Ok" /\ ret.val = <<>>

\* ------------------------------------------------------------------ C1
\* The shape of one list item at the front of `toks` (token kinds only):
\* a field is a Name with an optional Paren-tree and an optional Brace-tree,
\* an argument is Name Colon Value, a value is a single token.
IsValueTok(t) ==
    IsAtom(t, "Name") \/ IsAtom(t, "Number") \/ IsAtom(t, "String") \/ IsTree(t, "Square")
ItemLen(fn, toks) ==
    CASE fn = "parse_field_list" ->
           LET a == IF Len(toks) > 1 /\ IsTree(toks[2], "Paren") THEN 1 ELSE 0
               b == IF Len(toks) > 1 + a /\ IsTree(toks[2 + a], "Brace") THEN 1 ELSE 0
           IN 1 + a + b
      [] fn = "parse_arg_list"   -> Min(3, Len(toks))
      [] fn = "parse_value_list" -> 1
ItemShape(fn, item) ==
    CASE fn = "parse_field_list" -> IsAtom(item[1], "Name")
      [] fn = "parse_arg_list"   ->
           /\ Len(item) = 3
           /\ IsAtom(item[1], "Name") /\ IsAtom(item[2], "Colon") /\ IsValueTok(item[3])
      [] fn = "parse_value_list" -> IsValueTok(item[1])
RECURSIVE SepRun(_)
SepRun(toks) ==
    IF toks # <<>> /\ IsSep(toks[1]) THEN 1 + SepRun(Tail(toks)) ELSE 0
\* `toks` read as items, each followed by its (possibly empty) separator run
RECURSIVE Split(_, _)
Split(fn, toks) ==
    IF toks = <<>> THEN [items |-> <<>>, seps |-> <<>>]
    ELSE LET n     == ItemLen(fn, toks)
             after == SubSeq(toks, n + 1, Len(toks))
             k     == SepRun(after)
             r     == Split(fn, SubSeq(after, k + 1, Len(after)))
         IN [items |-> <<SubSeq(toks, 1, n)>> \o r.items,
             seps  |-> <<SubSeq(after, 1, k)>> \o r.seps]
RECURSIVE Flatten(_)
Flatten(ss) == IF ss = <<>> THEN <<>> ELSE ss[1] \o Flatten(Tail(ss))

\* the run is a list production over well-formed items with separators
\* written after each of them
ItemsAndSeps ==
    /\ Done /\ entry \in ListFns
    /\ input = <<>> \/ ~IsSep(input[1])
    /\ \A i \in 1..Len(Split(entry, input).items) :
           ItemShape(entry, Split(entry, input).items[i])
NoSeparators == Flatten(Split(entry, input).items)
\* a separator run of at most one Comma followed by NewLines only
CommaThenNewLines(sep) ==
    \A i \in 2..Len(sep) : IsAtom(sep[i], "NewLine")

\* C1 as stated: any run of Comma and NewLine atoms after each item gives
\* success with the item list of the items written with no separators.
C1_AnySeparators ==
    (ItemsAndSeps /\ Result(entry, NoSeparators).tag = "Ok") =>
        Outcome = Result(entry, NoSeparators)

\* C1 (amended): after each item, at most one Comma followed by any number
\* of NewLine atoms gives the outcome of the items written with no
\* separators at all, the same item list whenever those parse.
C1_CommaThenNewLines ==
    (/\ ItemsAndSeps
     /\ \A i \in 1..Len(Split(entry, input).seps) :
            CommaThenNewLines(Split(entry, input).seps[i])) =>
        Outcome = Result(entry, NoSeparators)

\* `a,\n b(..){..}\n` has been parsed to two fields
C1_Witness ==
    /\ Done /\ entry = "parse_field_list"
    /\ input = <<AtomName("a"), AtomComma, AtomNewLine,
                 AtomName("b"), ParenT, BraceT, AtomNewLine>>
    /\ ret.tag = "Ok" /\ Len(ret.val) = 2
    /\ Outcome = Result(entry, <<AtomName("a"), AtomName("b"), ParenT, BraceT>>)

\* ------------------------------------------------------------------ C4
\* The AST a scope denotes, read off the tokens: separators skipped, one
\* node per item in source order.
RECURSIVE ValueOf(_), ValuesOf(_), ArgsOf(_), FieldsOf(_)
ValueOf(t) ==
    CASE IsAtom(t, "Name") /\ t.text = "null" -> ValueNull
      [] IsAtom(t, "Name") /\ t.text # "null" -> ValueName(t.text)
      [] IsAtom(t, "Number") -> ValueName(Numeral(t.num))
      [] IsAtom(t, "String") -> ValueString(t.text)
      [] OTHER -> ValueArray(ValuesOf(t.toks))
ValuesOf(toks) ==
    IF toks = <<>> THEN <<>>
    ELSE IF IsSep(toks[1]) THEN ValuesOf(Tail(toks))
    ELSE <<ValueOf(toks[1])>> \o ValuesOf(Tail(toks))
ArgsOf(toks) ==
    IF Len(toks) < 3 THEN <<>>
    ELSE IF IsSep(toks[1]) THEN ArgsOf(Tail(toks))
    ELSE <<<<toks[1].text, ValueOf(toks[3])>>>> \o ArgsOf(SubSeq(toks, 4, Len(toks)))
FieldsOf(toks) ==
    IF toks = <<>> THEN <<>>
    ELSE IF IsSep(toks[1]) THEN FieldsOf(Tail(toks))
    ELSE LET n    == ItemLen("parse_field_list", toks)
             item == SubSeq(toks, 1, n)
             args == IF n > 1 /\ IsTree(item[2], "Paren") THEN ArgsOf(item[2].toks) ELSE <<>>
             subs == IF n > 1 /\ IsTree(item[n], "Brace") THEN FieldsOf(item[n].toks) ELSE <<>>
         IN <<[name |-> item[1].text, alias |-> <<>>, args |-> args, fields |-> subs]>>
            \o FieldsOf(SubSeq(toks, n + 1, Len(toks)))

\* C4: a field list parses to one Field per item in source order, with the
\* identifier as name, no alias, the arguments of its Paren-tree and the
\* fields of its Brace-tree (empty when absent); duplicates are all kept.
C4_FieldsInOrder ==
    (Done /\ entry = "parse_field_list" /\ ret.tag = "Ok") =>
        ret.val = FieldsOf(input)

\* `b(x: 1002, x: "foo"){a}, b(x: 1002, x: "foo"){a}`: the duplicate field
\* and the duplicate argument are both kept
C4_Witness ==
    /\ Done /\ entry = "parse_field_list" /\ ret.tag = "Ok"
    /\ Len(ret.val) = 2
    /\ ret.val[1] = ret.val[2]
    /\ ret.val[1] = [name |-> "b", alias |-> <<>>,
                     args |-> << <<"x", ValueName("1002")>>, <<"x", ValueString("foo")>> >>,
                     fields |-> <<MkField("a", <<>>, <<>>)>>]

\* ------------------------------------------------------------------ C8
\* the token with the contents of its bracket group removed
Shallow(t) == [t EXCEPT !.toks = <<>>]

\* C8: the value-list probe takes a token as the start of an item exactly
\* when parse_value accepts that kind of token as a value.
C8_ProbeInSync ==
    (Running("maybe_parse_value") /\ Top(Cfg).pc = 0 /\ Tokens(Cfg) # <<>>) =>
        (Len(Step(Cfg).stack) > Len(stack)
            <=> Result("parse_value", <<Shallow(Tokens(Cfg)[1])>>).tag = "Ok")

\* ------------------------------------------------------------------ C10
\* the run starts a method on a cursor whose front token is the Tree that
\* the method descends into
EntersTree ==
    /\ input # <<>>
    /\ \/ entry = "maybe_parse_args"   /\ IsTree(input[1], "Paren")
       \/ entry = "maybe_parse_fields" /\ IsTree(input[1], "Brace")
       \/ entry = "parse_value"        /\ IsTree(input[1], "Square")

\* C10: a list production returns Ok only with its scope fully consumed,
\* so a leftover token that cannot start an item fails the parse; the
\* cursor of the enclosing scope has moved past exactly the Tree token.
C10_ScopeConsumed ==
    /\ (ret.fn \in ListFns /\ ret.tag = "Ok") => parsers[Len(parsers)].tokens = <<>>
    /\ (Len(parsers) > 1 \/ Done) /\ EntersTree => parsers[1].tokens = Tail(input)

\* the field list of a nested Brace scope has just returned its fields
C10_Witness ==
    /\ ret.fn = "parse_field_list" /\ ret.tag = "Ok" /\ ret.val # <<>>
    /\ Len(parsers) = 2 /\ parsers[2].tokens = <<>>
    /\ entry = "maybe_parse_fields"
    /\ Len(input) = 2 /\ parsers[1].tokens = Tail(input)

\* ------------------------------------------------------------------ C6
\* a field or argument probe is looking at a token that is not an identifier
C6_BadStart ==
    /\ Running("maybe_parse_field") \/ Running("maybe_parse_arg")
    /\ Top(Cfg).pc = 0
    /\ Tokens(Cfg) # <<>>
    /\ ~IsAtom(Tokens(Cfg)[1], "Name")
\* the probe fails there, and a method that receives an error returns that
\* same error at once
C6_Propagates ==
    /\ C6_BadStart => ret'.tag = "Err" /\ Len(stack') < Len(stack)
    /\ ret.tag = "Err" =>
          ret'.tag = "Err" /\ ret'.val = ret.val /\ Len(stack') < Len(stack)

\* C6: a token at an item position of a field or argument list that is not
\* an identifier makes the list production return ParseError, and the error
\* passes unchanged through every enclosing scope: the run ends in
\* ParseError with no partial result.
C6_BadStartFails ==
    /\ [][C6_Propagates]_vars
    /\ C6_BadStart ~> (Done /\ ret.tag = "Err")

\* `{ a { 42 } }` has been rejected by the root production with the field
\* probe's error
C6_Witness ==
    /\ Done /\ entry = "parse_query"
    /\ input = <<Tree("Brace", <<AtomName("a"), Tree("Brace", <<AtomNumber(42)>>)>>)>>
    /\ ret.tag = "Err" /\ ret.val = "Unexpected token, expected: field"
    /\ ret.fn = "parse_query"

\* ------------------------------------------------------------------ C9
\* the token scopes at bracket depth d of `toks`
RECURSIVE ScopesAt(_, _)
ScopesAt(toks, d) ==
    IF d = 0 THEN {toks}
    ELSE UNION {ScopesAt(toks[i].toks, d - 1) :
                    i \in {j \in 1..Len(toks) : toks[j].kind = "Tree"}}
\* the i-th live Parser reads a suffix of a scope nested i-1 brackets deep
C9_Nested ==
    \A i \in 1..Len(parsers) :
        \E s \in ScopesAt(input, i - 1) : IsSuffix(parsers[i].tokens, s)
\* every item a list production has collected took at least one token of
\* its scope, and an ignore_newlines iteration either returns or bumps past
\* one token
C9_Progress ==
    /\ \A k \in 1..Len(stack) :
          stack[k].fn \in ListFns =>
              \E s \in ScopesAt(input, stack[k].self - 1) :
                  /\ IsSuffix(parsers[stack[k].self].tokens, s)
                  /\ Len(parsers[stack[k].self].tokens) + Len(stack[k].result) <= Len(s)
    /\ Running("ignore_newlines") =>
          LET n == Step(Cfg) IN
          \/ Len(n.stack) < Len(stack)
          \/ /\ Len(n.stack) > Len(stack) /\ Top(n).fn = "bump"
             /\ Len(Tokens(Step(n))) < Len(Tokens(Cfg))
\* no step gives a cursor tokens back
C9_Shrinks ==
    \A i \in 1..Min(Len(parsers), Len(parsers')) :
        IsSuffix(parsers'[i].tokens, parsers[i].tokens)

\* C9: parsing terminates: cursors only shrink from the front of their
\* scope, every loop iteration takes a token or leaves the loop, every
\* descent is into a nested bracket group, and the run ends with a result.
C9_Terminates ==
    /\ [](C9_Nested /\ C9_Progress)
    /\ [][C9_Shrinks]_vars
    /\ <>(Done /\ ret.tag \in {"Ok", "Err"})

\* the root production has returned over a three-deep tree whose innermost
\* scope is `\n a`
C9_Witness ==
    /\ Done /\ entry = "parse_query" /\ ret.tag = "Ok"
    /\ input = <<Tree("Brace", <<AtomName("a"),
                   Tree("Paren", <<AtomName("x"), AtomColon,
                                   Tree("Square", <<AtomNewLine, AtomName("a")>>)>>),
                   Tree("Brace", <<AtomName("b")>>)>>)>>

====
